---- MODULE Spec2Model ----
\* A model of QDataWidget.py: the QDataField descriptor and the QDataWidget base
\* class, together with the part of the Python object model (class namespaces,
\* attribute lookup along the base classes, instance __dict__) and of the
\* toolkit's signals (per-object connections, synchronous emit) they run on.
EXTENDS Integers, Sequences, FiniteSets, TLC

\* ---------------------------------------------------------------- bounds
\* The most connections the program makes.
MaxConnections == 2
\* The most keyword arguments one constructor call is given.
MaxKwargs == 2

\* ---------------------------------------------------------------- strings
\* Attribute names are sequences of characters, so that name + 'Changed' and
\* 'set' + name.capitalize() are computed as Python computes them.
Lowers == <<"a","b","c","d","e","f","g","h","i","j","k","l","m",
            "n","o","p","q","r","s","t","u","v","w","x","y","z">>
Uppers == <<"A","B","C","D","E","F","G","H","I","J","K","L","M",
            "N","O","P","Q","R","S","T","U","V","W","X","Y","Z">>

\* str.upper() of one character.
upper(c) ==
    IF \E i \in 1..Len(Lowers) : Lowers[i] = c
    THEN Uppers[CHOOSE i \in 1..Len(Lowers) : Lowers[i] = c]
    ELSE c

\* str.lower() of one character.
lower(c) ==
    IF \E i \in 1..Len(Uppers) : Uppers[i] = c
    THEN Lowers[CHOOSE i \in 1..Len(Uppers) : Uppers[i] = c]
    ELSE c

\* str.capitalize(): the first character upper-cased, ALL the others lower-cased.
capitalize(s) ==
    IF s = <<>> THEN s
    ELSE <<upper(s[1])>> \o [i \in 1..(Len(s) - 1) |-> lower(s[i + 1])]

\* name + 'Changed'  (QDataField.__set_name__, line 49)
signal_name_of(name) == name \o <<"C","h","a","n","g","e","d">>

\* 'set' + kw.capitalize()  (QDataWidget.__init__, line 82)
slot_name_of(kw) == <<"s","e","t">> \o capitalize(kw)

\* ---------------------------------------------------------------- the program's names and values
kind   == <<"k","i","n","d">>
maxV   == <<"m","a","x","V">>
maxv   == <<"m","a","x","v">>
parent == <<"p","a","r","e","n","t">>
bogus  == <<"b","o","g","u","s">>

FieldNames == {kind, maxV, maxv}

\* Python's None, and the values fields are given: the floats 0.0 and 0.05.
None   == "None"
Values == {"0.0", "0.05"}

\* The floats in hundredths, for comparing them.
num(v) == IF v = "0.05" THEN 5 ELSE 0

\* value is below the min or above the max a declaration gives.
out_of_range(decl, value) ==
    \/ decl.min # None /\ num(value) < num(decl.min)
    \/ decl.max # None /\ num(value) > num(decl.max)

\* bool(v): None and 0.0 are falsy.
bool(v) == v \notin {None, "0.0"}

\* The data-widget classes of the program: Resistor subclasses QDataWidget,
\* Precision subclasses Resistor.
QDataWidgetClass == "QDataWidget"
Classes == {"Resistor", "Precision"}
base_of(c) == IF c = "Precision" THEN "Resistor" ELSE QDataWidgetClass

\* The classes attribute lookup visits, most derived first (QDataWidget and
\* QObject define none of the attributes modelled here).
mro(c) == IF base_of(c) = QDataWidgetClass THEN <<c>> ELSE <<c, base_of(c)>>

\* The widgets, named in the order the program constructs them.
Objects     == {"w1", "w2", "w3"}
\* The one widget of the program the declarations are explored on.
FirstObject == {"w1"}
\* The two widgets of the program the subscribers are explored on.
FirstTwoObjects == {"w1", "w2"}
Before(o1, o2) ==
    \/ o1 = "w1" /\ o2 \in {"w2", "w3"}
    \/ o1 = "w2" /\ o2 = "w3"
Subscribers == {"s1", "s2"}

\* ---------------------------------------------------------------- QDataField
\* QDataField.__init__: the declaration as written in a class body.
QDataField(data_type, default_value, min, max) ==
    [data_type |-> data_type, default_value |-> default_value,
     min |-> min, max |-> max]

\* A class body: the (attribute name, QDataField) pairs in source order.
Attr(name, field) == [name |-> name, field |-> field]

\* The class bodies the program may give each class. Precision either adds a
\* field whose name differs from an inherited one in letter case only, or
\* declares the inherited kind again with another default. maxV is declared
\* with a min of 0.05, maxv with a max of 0.0.
ClassBodies(c) ==
    IF c = "Resistor"
    THEN { << Attr(kind, QDataField("str", "0.0", None, None)),
              Attr(maxV, QDataField("float", None, "0.05", None)) >> }
    ELSE { << Attr(maxv, QDataField("float", "0.05", None, "0.0")) >>,
           << Attr(kind, QDataField("str", "0.05", None, None)) >> }

\* The class body of the one-field program the wiring is explored on.
WiredBodies(c) ==
    IF c = "Resistor"
    THEN { << Attr(maxV, QDataField("float", None, None, None)) >> }
    ELSE { }

VARIABLES
    defined,      \* the classes whose class statement has run
    descriptors,  \* descriptors[c]: the QDataField attributes in class c's own namespace
    signals,      \* signals[c]: the Signal attributes in class c's own namespace
    fields,       \* fields[c]: the _fields dict in class c's own namespace (if it has one)
    objtype,      \* objtype[o]: the class of object o, or None before it is constructed
    obj_dict,     \* obj_dict[o]: the field values in o.__dict__
    obj_slots,    \* obj_slots[o]: the synthesized setters in o.__dict__: slot name -> attr_name
    connections,  \* the signal connections made, in the order they were made
    lastOp,       \* the operation that ran last, with its arguments and outcome
    emitted,      \* the signals emitted while it ran, in order
    received      \* the Subscriber.print_value calls made while it ran, in order

vars == <<defined, descriptors, signals, fields, objtype, obj_dict, obj_slots,
          connections, lastOp, emitted, received>>

\* ---------------------------------------------------------------- Python object model
\* d[key] = value on a function used as a dict.
Put(d, key, value) ==
    [k \in DOMAIN d \cup {key} |-> IF k = key THEN value ELSE d[k]]

\* An insertion-ordered dict of declarations keyed by .name: d[decl.name] = decl
\* replaces an existing entry in place and appends a new one.
DictSet(d, decl) ==
    IF \E i \in 1..Len(d) : d[i].name = decl.name
    THEN [i \in 1..Len(d) |-> IF d[i].name = decl.name THEN decl ELSE d[i]]
    ELSE Append(d, decl)

DictKeys(d) == [i \in 1..Len(d) |-> d[i].name]
DictHas(d, name) == \E i \in 1..Len(d) : d[i].name = name
DictGet(d, name) == d[CHOOSE i \in 1..Len(d) : d[i].name = name]

\* Attribute lookup on a class: the first class along cls's bases among
\* those that have the attribute (has), or None.
Owner(cls, has) ==
    LET m == mro(cls)
        hits == {i \in 1..Len(m) : m[i] \in has}
    IN  IF hits = {} THEN None
        ELSE m[CHOOSE i \in hits : \A j \in hits : i <= j]

\* hasattr(cls, '_fields'), and the dict cls._fields evaluates to.
has_fields(cls, flds) == Owner(cls, DOMAIN flds) # None
fields_of(cls, flds)  == flds[Owner(cls, DOMAIN flds)]

\* hasattr(type(obj), signal_name): the Signal is found along the bases.
has_signal(cls, sigs, signal_name) ==
    Owner(cls, {c \in Classes : signal_name \in DOMAIN sigs[c]}) # None

\* The QDataField that type(obj).<name> finds along the bases, if any.
has_descriptor(cls, descs, name) ==
    Owner(cls, {c \in Classes : name \in DOMAIN descs[c]}) # None
descriptor_of(cls, descs, name) ==
    descs[Owner(cls, {c \in Classes : name \in DOMAIN descs[c]})][name]

\* ---------------------------------------------------------------- class definition
\* QDataField.__set_name__(self, cls, name), run by the class statement for
\* each QDataField of the body. cs holds the class namespaces.
set_name(cs, self, cls, name) ==
    LET \* self.name = name; self.signal_name = name + 'Changed'
        named == [data_type |-> self.data_type, default_value |-> self.default_value,
                  min |-> self.min, max |-> self.max,
                  name |-> name, signal_name |-> signal_name_of(name)]
        \* if not hasattr(cls, '_fields'): cls._fields = {}
        \* (hasattr also finds a base class's _fields)
        flds1 == IF has_fields(cls, cs.fields) THEN cs.fields
                 ELSE Put(cs.fields, cls, << >>)
        \* cls._fields[name] = self  (on the dict the lookup finds)
        owner == Owner(cls, DOMAIN flds1)
    IN  [descriptors |-> [cs.descriptors EXCEPT ![cls] = Put(@, name, named)],
         fields      |-> [flds1 EXCEPT ![owner] = DictSet(@, named)],
         \* setattr(cls, self.signal_name, qtc.Signal(self.data_type))
         signals     |-> [cs.signals EXCEPT ![cls] = Put(@, named.signal_name, named.data_type)]]

\* The class statement: __set_name__ for each QDataField of the body, in order.
RECURSIVE class_statement(_, _, _, _)
class_statement(cs, cls, body, i) ==
    IF i > Len(body) THEN cs
    ELSE class_statement(set_name(cs, body[i].field, cls, body[i].name), cls, body, i + 1)

\* ---------------------------------------------------------------- QDataField access
\* The objects as one call sees and changes them: h.type[o] the class of o,
\* h.dict[o] its field values, h.fields the _fields dicts with the QDataField
\* objects in them, h.emitted and h.received the signals emitted and the
\* subscriber calls made so far, h.raised the exception being raised.
RECURSIVE descr_set(_, _, _, _), emit(_, _, _, _, _), set_field(_, _, _, _)

\* descr_get with obj.__dict__.get(self.name) in place of the subscript: an
\* absent value reads as None.
descr_get_or_none(h, self, obj) ==
    IF self.name \in DOMAIN h.dict[obj]
    THEN [h EXCEPT !.value = h.dict[obj][self.name]]
    ELSE h

\* descr_get with obj.__dict__.pop(self.name) in place of the subscript: the
\* read takes the value out.
descr_get_pop(h, self, obj) ==
    IF self.name \in DOMAIN h.dict[obj]
    THEN [h EXCEPT !.value = h.dict[obj][self.name],
                   !.dict[obj] = [k \in DOMAIN h.dict[obj] \ {self.name} |-> h.dict[obj][k]]]
    ELSE [h EXCEPT !.raised = "KeyError"]

\* QDataField.__get__(self, obj): obj.__dict__[self.name], a KeyError if absent.
\* h.value is what the call returns.
descr_get(h, self, obj) ==
    IF self.name \in DOMAIN h.dict[obj]
    THEN [h EXCEPT !.value = h.dict[obj][self.name]]
    ELSE [h EXCEPT !.raised = "KeyError"]

\* descr_set with the signal emitted on the early return too.
descr_set_always_emits(h, self, obj, value) ==
    IF self.name \in DOMAIN h.dict[obj] /\ value = h.dict[obj][self.name]
    THEN [h EXCEPT !.emitted = Append(@, [obj |-> obj, signal |-> self.signal_name,
                                          value |-> value])]
    ELSE
      LET h1 == [h EXCEPT !.dict[obj] = Put(@, self.name, value)]
      IN  IF ~has_signal(h.type[obj], signals, self.signal_name)
          THEN [h1 EXCEPT !.raised = "AttributeError"]
          ELSE emit([h1 EXCEPT !.emitted = Append(@, [obj |-> obj,
                                                      signal |-> self.signal_name,
                                                      value |-> value])],
                    obj, self.signal_name, value, 1)

\* descr_set enforcing the declared bounds: a value below min or above max is
\* rejected with a ValueError, nothing stored.
descr_set_in_range(h, self, obj, value) ==
    IF out_of_range(self, value)
    THEN [h EXCEPT !.raised = "ValueError"]
    ELSE IF self.name \in DOMAIN h.dict[obj] /\ value = h.dict[obj][self.name]
    THEN h
    ELSE
      LET h1 == [h EXCEPT !.dict[obj] = Put(@, self.name, value)]
      IN  IF ~has_signal(h.type[obj], signals, self.signal_name)
          THEN [h1 EXCEPT !.raised = "AttributeError"]
          ELSE emit([h1 EXCEPT !.emitted = Append(@, [obj |-> obj,
                                                      signal |-> self.signal_name,
                                                      value |-> value])],
                    obj, self.signal_name, value, 1)

\* descr_set remembering the value written on the QDataField itself, as its
\* default_value.
descr_set_on_declaration(h, self, obj, value) ==
    IF self.name \in DOMAIN h.dict[obj] /\ value = h.dict[obj][self.name]
    THEN h
    ELSE
      LET h1 == [h EXCEPT !.dict[obj] = Put(@, self.name, value),
                          !.fields[Owner(h.type[obj], DOMAIN h.fields)] =
                               DictSet(@, [self EXCEPT !.default_value = value])]
      IN  IF ~has_signal(h.type[obj], signals, self.signal_name)
          THEN [h1 EXCEPT !.raised = "AttributeError"]
          ELSE emit([h1 EXCEPT !.emitted = Append(@, [obj |-> obj,
                                                      signal |-> self.signal_name,
                                                      value |-> value])],
                    obj, self.signal_name, value, 1)

\* descr_set keeping one value for the class: the value is stored for every
\* widget of obj's class.
descr_set_shared(h, self, obj, value) ==
    IF self.name \in DOMAIN h.dict[obj] /\ value = h.dict[obj][self.name]
    THEN h
    ELSE
      LET h1 == [h EXCEPT !.dict = [o \in DOMAIN h.dict |->
                                      IF h.type[o] = h.type[obj]
                                      THEN Put(h.dict[o], self.name, value)
                                      ELSE h.dict[o]]]
      IN  IF ~has_signal(h.type[obj], signals, self.signal_name)
          THEN [h1 EXCEPT !.raised = "AttributeError"]
          ELSE emit([h1 EXCEPT !.emitted = Append(@, [obj |-> obj,
                                                      signal |-> self.signal_name,
                                                      value |-> value])],
                    obj, self.signal_name, value, 1)

\* QDataField.__set__(self, obj, value)
descr_set(h, self, obj, value) ==
    \* if self.name in obj.__dict__ and value == obj.__dict__[self.name]: return
    IF self.name \in DOMAIN h.dict[obj] /\ value = h.dict[obj][self.name]
    THEN h
    ELSE
      \* obj.__dict__[self.name] = value
      LET h1 == [h EXCEPT !.dict[obj] = Put(@, self.name, value)]
      IN  \* getattr(obj, self.signal_name): an AttributeError when no class of
          \* obj has the signal; the value is stored by then
          IF ~has_signal(h.type[obj], signals, self.signal_name)
          THEN [h1 EXCEPT !.raised = "AttributeError"]
          \* .emit(value)
          ELSE emit([h1 EXCEPT !.emitted = Append(@, [obj |-> obj,
                                                      signal |-> self.signal_name,
                                                      value |-> value])],
                    obj, self.signal_name, value, 1)

\* The field a signal belongs to: signal_name without its 'Changed'.
field_of_signal(signal_name) == SubSeq(signal_name, 1, Len(signal_name) - 7)

\* What a handler called for obj's signal reads in the field the signal
\* belongs to: the value QDataField.__get__ returns, or the exception it raises.
seen_by_handler(h, obj, signal_name) ==
    LET r == descr_get(h, [name |-> field_of_signal(signal_name)], obj)
    IN  IF r.raised # None THEN r.raised ELSE r.value

\* emit with a queued connection: emit returns at once, the handlers are
\* called when control is back in the event loop.
emit_queued(h, obj, signal_name, value, i) == h

\* emit with the signal of the class, not of the object: what is connected to
\* the same-named signal of any object is called.
RECURSIVE emit_class_signal(_, _, _, _, _)
emit_class_signal(h, obj, signal_name, value, i) ==
    IF i > Len(connections) THEN h
    ELSE LET c == connections[i] IN
         IF c.signal # signal_name
         THEN emit_class_signal(h, obj, signal_name, value, i + 1)
         ELSE IF c.target.kind = "subscriber"
         THEN emit_class_signal([h EXCEPT !.received = Append(@,
                                     [sub |-> c.target.to, value |-> value,
                                      seen |-> seen_by_handler(h, obj, signal_name)])],
                                obj, signal_name, value, i + 1)
         ELSE emit_class_signal([set_field(h, c.target.to, value, c.target.attr_name)
                                     EXCEPT !.raised = None],
                                obj, signal_name, value, i + 1)

\* <bound signal>.emit(value): the toolkit calls what is connected to this
\* signal of this object, in connection order, before emit returns. An
\* exception a called slot raises is reported by the toolkit and does not
\* reach the emitter.
emit(h, obj, signal_name, value, i) ==
    IF i > Len(connections) THEN h
    ELSE LET c == connections[i] IN
         IF c.obj # obj \/ c.signal # signal_name
         THEN emit(h, obj, signal_name, value, i + 1)
         ELSE IF c.target.kind = "subscriber"
         \* Subscriber.print_value(value); seen is what it would read in
         \* the field at that moment
         THEN emit([h EXCEPT !.received = Append(@,
                        [sub |-> c.target.to, value |-> value,
                         seen |-> seen_by_handler(h, obj, signal_name)])],
                   obj, signal_name, value, i + 1)
         ELSE emit([set_field(h, c.target.to, value, c.target.attr_name)
                        EXCEPT !.raised = None],
                   obj, signal_name, value, i + 1)

\* set_field writing the value and emitting the signal itself, without the
\* comparison QDataField.__set__ makes.
set_field_unchecked(h, self, value, attr_name) ==
    LET decl == DictGet(fields_of(h.type[self], fields), attr_name)
        h1 == [h EXCEPT !.dict[self] = Put(@, attr_name, value)]
    IN  IF ~has_signal(h.type[self], signals, decl.signal_name)
        THEN [h1 EXCEPT !.raised = "AttributeError"]
        ELSE emit([h1 EXCEPT !.emitted = Append(@, [obj |-> self,
                                                    signal |-> decl.signal_name,
                                                    value |-> value])],
                  self, decl.signal_name, value, 1)

\* set_field putting the value into self.__dict__ itself: nothing is compared
\* and nothing is emitted.
set_field_silent(h, self, value, attr_name) ==
    [h EXCEPT !.dict[self] = Put(@, attr_name, value)]

\* QDataWidget._set_field(self, value, attr_name):
\* self._fields[attr_name].__set__(self, value)
set_field(h, self, value, attr_name) ==
    descr_set(h, DictGet(fields_of(h.type[self], fields), attr_name), self, value)

\* obj.<name>: the QDataField of obj's class (a data descriptor) answers; where
\* the class has none, the instance's __dict__ does, an AttributeError if absent.
getattr_field(h, obj, name) ==
    IF has_descriptor(h.type[obj], descriptors, name)
    THEN descr_get(h, descriptor_of(h.type[obj], descriptors, name), obj)
    ELSE IF name \in DOMAIN h.dict[obj]
    THEN [h EXCEPT !.value = h.dict[obj][name]]
    ELSE [h EXCEPT !.raised = "AttributeError"]

\* obj.<name> = value: the QDataField of obj's class handles it; where the class
\* has none, the value goes into the instance's __dict__ as any attribute does.
setattr_field(h, obj, name, value) ==
    IF has_descriptor(h.type[obj], descriptors, name)
    THEN descr_set(h, descriptor_of(h.type[obj], descriptors, name), obj, value)
    ELSE [h EXCEPT !.dict[obj] = Put(@, name, value)]

\* The objects before an operation starts.
Heap == [type |-> objtype, dict |-> obj_dict, fields |-> fields, emitted |-> << >>,
         received |-> << >>, raised |-> None, value |-> None]

\* ---------------------------------------------------------------- operations' records
NoName == << >>

\* op: the operation; cls, obj: the class and widget it ran on; name: the
\* attribute, slot or signal named; attr: the field written or read; value: the
\* value passed or returned; raised: the exception it ended with, if any. For a
\* constructor call, args and kwargs as given, staged: the field initializers
\* taken out, base_args and forwarded: what QObject.__init__ was called with,
\* stored and slots: the field values and the setters in self.__dict__ when
\* the call ended.
Op(op, cls, obj, name, attr, value, raised) ==
    [op |-> op, cls |-> cls, obj |-> obj, name |-> name, attr |-> attr,
     value |-> value, raised |-> raised, args |-> << >>, kwargs |-> << >>,
     staged |-> << >>, forwarded |-> << >>, base_args |-> << >>,
     stored |-> << >>, slots |-> << >>]

Init ==
    /\ defined = {}
    /\ descriptors = [c \in Classes |-> << >>]
    /\ signals = [c \in Classes |-> << >>]
    /\ fields = << >>
    /\ objtype = [o \in Objects |-> None]
    /\ obj_dict = [o \in Objects |-> << >>]
    /\ obj_slots = [o \in Objects |-> << >>]
    /\ connections = << >>
    /\ lastOp = Op("start", None, None, NoName, NoName, None, None)
    /\ emitted = << >>
    /\ received = << >>

\* class <cls>(<base>): <body>
DefineClass(cls, body) ==
    /\ cls \notin defined
    /\ base_of(cls) = QDataWidgetClass \/ base_of(cls) \in defined
    /\ \E cs \in {class_statement([descriptors |-> descriptors, fields |-> fields,
                                     signals |-> signals], cls, body, 1)} :
           /\ descriptors' = cs.descriptors
           /\ fields' = cs.fields
           /\ signals' = cs.signals
    /\ defined' = defined \cup {cls}
    /\ lastOp' = Op("class", cls, None, NoName, NoName, None, None)
    /\ emitted' = << >>
    /\ received' = << >>
    /\ UNCHANGED <<objtype, obj_dict, obj_slots, connections>>

\* The names obj's class treats as fields: the registered ones and the ones
\* with a QDataField in the class.
field_names(obj) ==
    {n \in FieldNames :
        \/ DictHas(fields_of(objtype[obj], fields), n)
        \/ has_descriptor(objtype[obj], descriptors, n)}

\* obj.<name> = value
Assign(obj, name, value) ==
    /\ objtype[obj] # None
    /\ name \in field_names(obj)
    /\ \E h \in {setattr_field(Heap, obj, name, value)} :
           /\ obj_dict' = h.dict
           /\ emitted' = h.emitted
           /\ received' = h.received
           /\ fields' = h.fields
           /\ lastOp' = Op("assign", objtype[obj], obj, name, name, value, h.raised)
    /\ UNCHANGED <<defined, descriptors, signals, objtype, obj_slots, connections>>

\* obj.<slot_name>(value), slot_name one of the synthesized setters of obj: the
\* partial calls obj._set_field(value, attr_name = <the kw it was made for>).
CallSlot(obj, slot_name, value) ==
    /\ objtype[obj] # None
    /\ slot_name \in DOMAIN obj_slots[obj]
    /\ \E h \in {set_field(Heap, obj, value, obj_slots[obj][slot_name])} :
           /\ obj_dict' = h.dict
           /\ emitted' = h.emitted
           /\ received' = h.received
           /\ fields' = h.fields
           /\ lastOp' = Op("slot", objtype[obj], obj, slot_name, obj_slots[obj][slot_name],
                            value, h.raised)
    /\ UNCHANGED <<defined, descriptors, signals, objtype, obj_slots, connections>>

\* obj.<name> read
Read(obj, name) ==
    /\ objtype[obj] # None
    /\ name \in field_names(obj)
    /\ \E h \in {getattr_field(Heap, obj, name)} :
           /\ obj_dict' = h.dict
           /\ emitted' = h.emitted
           /\ received' = h.received
           /\ fields' = h.fields
           /\ lastOp' = Op("read", objtype[obj], obj, name, name, h.value, h.raised)
    /\ UNCHANGED <<defined, descriptors, signals, objtype, obj_slots, connections>>

\* The callables the program connects signals to: a subscriber's print_value,
\* or a synthesized setter of a data widget (the partial, which holds the
\* widget and the attr_name).
Targets ==
    {[kind |-> "subscriber", to |-> s, attr_name |-> NoName] : s \in Subscribers}
    \cup UNION {{[kind |-> "slot", to |-> o, attr_name |-> obj_slots[o][n]] :
                    n \in DOMAIN obj_slots[o]} : o \in Objects}

\* obj.<signal_name>.connect(target)
Connect(obj, signal_name, target) ==
    /\ objtype[obj] # None
    /\ has_signal(objtype[obj], signals, signal_name)
    /\ Len(connections) < MaxConnections
    /\ connections' = Append(connections, [obj |-> obj, signal |-> signal_name,
                                           target |-> target])
    /\ lastOp' = Op("connect", objtype[obj], obj, signal_name, NoName, None, None)
    /\ emitted' = << >>
    /\ received' = << >>
    /\ UNCHANGED <<defined, descriptors, signals, fields, objtype, obj_dict, obj_slots>>

\* ---------------------------------------------------------------- construction
\* The keyword arguments a constructor call may be given: a dict, so no
\* keyword twice; kw/value pairs in the order written.
KwItems ==
    {[kw |-> kind, value |-> "0.0"], [kw |-> kind, value |-> "0.05"],
     [kw |-> maxV, value |-> "0.05"], [kw |-> maxv, value |-> "0.0"],
     [kw |-> parent, value |-> None], [kw |-> bogus, value |-> "0.0"]}

WiredKwItems == {[kw |-> maxV, value |-> v] : v \in Values}

KwargsOver(items) ==
    UNION {{s \in [1..n -> items] :
                \A i, j \in 1..n : i # j => s[i].kw # s[j].kw} : n \in 0..MaxKwargs}

Kwargs == KwargsOver(KwItems)
WiredKwargs == KwargsOver(WiredKwItems)

\* The positional arguments: none, or the parent.
Args == {<< >>, <<None>>}

\* QObject.__init__(*args, **kwargs) as the toolkit defines it: one optional
\* parent, positional or by keyword; any other keyword is an error.
qobject_init_raises(args, kwargs) ==
    \/ Len(args) > 1
    \/ \E i \in 1..Len(kwargs) : kwargs[i].kw # parent
    \/ Len(args) = 1 /\ kwargs # << >>

\* split_kwargs without the del: the field initializers stay in kwargs.
split_kwargs_no_del(flds, kwargs) ==
    [field_init |-> SelectSeq(kwargs, LAMBDA a : DictHas(flds, a.kw)),
     kwargs     |-> kwargs]

\* field_init = {}; for kw, value in list(kwargs.items()):
\*     if kw in self._fields: field_init[kw] = value; del kwargs[kw]
split_kwargs(flds, kwargs) ==
    [field_init |-> SelectSeq(kwargs, LAMBDA a : DictHas(flds, a.kw)),
     kwargs     |-> SelectSeq(kwargs, LAMBDA a : ~DictHas(flds, a.kw))]

\* apply_field_init storing the values the way the defaults are stored:
\* straight into self.__dict__, no signal.
RECURSIVE apply_field_init_silently(_, _, _, _)
apply_field_init_silently(h, self, field_init, i) ==
    IF i > Len(field_init) THEN h
    ELSE apply_field_init_silently(
             [h EXCEPT !.dict[self] = Put(@, field_init[i].kw, field_init[i].value)],
             self, field_init, i + 1)

\* for kw, value in field_init.items(): self._fields[kw].__set__(self, value)
\* An exception ends the loop (and the constructor).
RECURSIVE apply_field_init(_, _, _, _)
apply_field_init(h, self, field_init, i) ==
    IF i > Len(field_init) \/ h.raised # None THEN h
    ELSE apply_field_init(
             descr_set(h, DictGet(fields_of(h.type[self], fields), field_init[i].kw),
                       self, field_init[i].value),
             self, field_init, i + 1)

\* defaults_and_slots with "and self._fields[kw].default_value" as the test: a
\* falsy default is taken for no default.
RECURSIVE defaults_and_slots_if_truthy(_, _, _)
defaults_and_slots_if_truthy(d, flds, i) ==
    IF i > Len(flds) THEN d
    ELSE LET kw == flds[i].name
             dict1 == IF kw \notin DOMAIN d.dict /\ bool(flds[i].default_value)
                      THEN Put(d.dict, kw, flds[i].default_value)
                      ELSE d.dict
             slots1 == Put(d.slots, slot_name_of(kw), kw)
         IN  defaults_and_slots_if_truthy([dict |-> dict1, slots |-> slots1], flds, i + 1)

\* for kw in self._fields.keys(): the default value, then the slot.
\* d is [dict |-> self.__dict__'s field values, slots |-> its setters].
RECURSIVE defaults_and_slots(_, _, _)
defaults_and_slots(d, flds, i) ==
    IF i > Len(flds) THEN d
    ELSE LET kw == flds[i].name
             \* if kw not in self.__dict__ and default_value is not None:
             \*     self.__dict__[kw] = default_value
             dict1 == IF kw \notin DOMAIN d.dict /\ flds[i].default_value # None
                      THEN Put(d.dict, kw, flds[i].default_value)
                      ELSE d.dict
             \* setattr(self, 'set' + kw.capitalize(),
             \*         partial(self._set_field, attr_name = kw))
             slots1 == Put(d.slots, slot_name_of(kw), kw)
         IN  defaults_and_slots([dict |-> dict1, slots |-> slots1], flds, i + 1)

\* base_then_fields with the two statements in the other order: the field
\* initializers are written before QObject.__init__ has looked at the keywords.
fields_then_base(h, self, args, split) ==
    LET h1 == apply_field_init(h, self, split.field_init, 1)
    IN  IF h1.raised = None /\ qobject_init_raises(args, split.kwargs)
        THEN [h1 EXCEPT !.raised = "TypeError"]
        ELSE h1

\* super().__init__(*args, **kwargs)
\* for kw, value in field_init.items(): self._fields[kw].__set__(self, value)
base_then_fields(h, self, args, split) ==
    IF qobject_init_raises(args, split.kwargs)
    THEN [h EXCEPT !.raised = "TypeError"]
    ELSE apply_field_init(h, self, split.field_init, 1)

\* obj = cls(*args, **kwargs): QDataWidget.__init__. A constructor that raises
\* leaves no object behind.
Construct(obj, cls, args, kwargs) ==
    /\ objtype[obj] = None
    /\ cls \in defined
    /\ \A o \in Objects : Before(o, obj) => objtype[o] # None
    /\ \E flds \in {fields_of(cls, fields)} :
       \E split \in {split_kwargs(flds, kwargs)} :
       \E h \in {base_then_fields([Heap EXCEPT !.type[obj] = cls], obj, args, split)} :
       \E d \in {IF h.raised # None
                 THEN [dict |-> h.dict[obj], slots |-> << >>]
                 ELSE defaults_and_slots([dict |-> h.dict[obj], slots |-> << >>],
                                         flds, 1)} :
           /\ lastOp' = [Op("construct", cls, obj, NoName, NoName, None, h.raised)
                            EXCEPT !.args = args, !.kwargs = kwargs,
                                   !.staged = split.field_init,
                                   !.forwarded = split.kwargs, !.base_args = args,
                                   !.stored = d.dict, !.slots = d.slots]
           /\ emitted' = h.emitted
           /\ received' = h.received
           /\ fields' = h.fields
           /\ IF h.raised # None
              THEN UNCHANGED <<objtype, obj_dict, obj_slots>>
              ELSE /\ objtype' = [objtype EXCEPT ![obj] = cls]
                   /\ obj_dict' = [h.dict EXCEPT ![obj] = d.dict]
                   /\ obj_slots' = [obj_slots EXCEPT ![obj] = d.slots]
    /\ UNCHANGED <<defined, descriptors, signals, connections>>

\* The operations on the classes of the program and one widget.
Next ==
    \/ \E cls \in Classes : \E body \in ClassBodies(cls) : DefineClass(cls, body)
    \/ \E obj \in FirstObject, cls \in Classes, args \in Args, kwargs \in Kwargs :
          Construct(obj, cls, args, kwargs)
    \/ \E obj \in FirstObject, name \in FieldNames, value \in Values : Assign(obj, name, value)
    \/ \E obj \in FirstObject, value \in Values :
          \E slot_name \in DOMAIN obj_slots[obj] : CallSlot(obj, slot_name, value)
    \/ \E obj \in FirstObject, name \in FieldNames : Read(obj, name)

Spec == Init /\ [][Next]_vars

\* The same operations and signal connections, on two widgets of the
\* one-field program.
NextWired ==
    \/ \E cls \in Classes : \E body \in WiredBodies(cls) : DefineClass(cls, body)
    \/ \E obj \in FirstTwoObjects, cls \in Classes, kwargs \in WiredKwargs :
          Construct(obj, cls, << >>, kwargs)
    \/ \E obj \in FirstTwoObjects, name \in FieldNames, value \in Values : Assign(obj, name, value)
    \/ \E obj \in FirstTwoObjects, value \in Values :
          \E slot_name \in DOMAIN obj_slots[obj] : CallSlot(obj, slot_name, value)
    \/ \E obj \in FirstTwoObjects, name \in FieldNames : Read(obj, name)
    \/ \E obj \in FirstTwoObjects, name \in FieldNames, target \in Targets :
          Connect(obj, signal_name_of(name), target)

SpecWired == Init /\ [][NextWired]_vars

\* The setters of the other widgets: what a signal of obj is linked to.
LinkTargets(obj) == {t \in Targets : t.kind = "slot" /\ t.to # obj}

\* Three widgets of the one-field program, constructed and then linked signal
\* to setter, and written by assignment.
NextChain ==
    \/ \E cls \in Classes : \E body \in WiredBodies(cls) : DefineClass(cls, body)
    \/ \E obj \in Objects, cls \in Classes, kwargs \in WiredKwargs :
          Construct(obj, cls, << >>, kwargs)
    \/ \E obj \in Objects, name \in FieldNames, value \in Values : Assign(obj, name, value)
    \/ \E obj \in Objects, name \in FieldNames :
          /\ \A o \in Objects : objtype[o] # None
          /\ \E target \in LinkTargets(obj) : Connect(obj, signal_name_of(name), target)

SpecChain == Init /\ [][NextChain]_vars

\* ---------------------------------------------------------------- properties
\* The Field Registry class c sees, empty where it sees none.
Registry(c, flds) == IF has_fields(c, flds) THEN fields_of(c, flds) ELSE << >>

\* The positions in a sequence of emissions of those of obj's signal.
EmissionsOf(log, obj, signal_name) ==
    {i \in 1..Len(log) : log[i].obj = obj /\ log[i].signal = signal_name}

IsWrite(op) == op.op \in {"assign", "slot"}

\* C1: a write (direct assignment, or a synthesized setter of the field) of the
\* stored value changes nothing and emits nothing; a write of another value
\* emits exactly one notification on the field's channel, carrying the new
\* value, and the field then reads as the new value.
C1_WriteContract ==
    [][IsWrite(lastOp') =>
         LET o  == lastOp'.obj
             f  == lastOp'.attr
             v  == lastOp'.value
             on == EmissionsOf(emitted', o, signal_name_of(f))
         IN  f \in DOMAIN obj_dict[o] =>
               IF obj_dict[o][f] = v
               THEN obj_dict' = obj_dict /\ emitted' = << >>
               ELSE /\ Cardinality(on) = 1
                    /\ \A i \in on : emitted'[i].value = v
                    /\ f \in DOMAIN obj_dict'[o] /\ obj_dict'[o][f] = v]_vars

\* C2: after a constructor call, every field the widget's class declares with a
\* default and that was given no initializer reads as that default, and the
\* call emitted nothing on the field's channel.
C2_DeclaredDefaultRead ==
    (lastOp.op = "construct" /\ lastOp.raised = None) =>
      \A f \in FieldNames :
        (/\ has_descriptor(lastOp.cls, descriptors, f)
         /\ descriptor_of(lastOp.cls, descriptors, f).default_value # None
         /\ \A i \in 1..Len(lastOp.staged) : lastOp.staged[i].kw # f)
        => /\ getattr_field(Heap, lastOp.obj, f).raised = None
           /\ getattr_field(Heap, lastOp.obj, f).value
                = descriptor_of(lastOp.cls, descriptors, f).default_value
           /\ EmissionsOf(emitted, lastOp.obj, signal_name_of(f)) = {}

\* C3 as stated: a constructor call given, for a field, an initializer equal to
\* the field's declared default emits nothing on that field's channel.
C3_EqualInitializerSilent ==
    (lastOp.op = "construct" /\ lastOp.raised = None) =>
      \A i \in 1..Len(lastOp.staged) :
        lastOp.staged[i].value
           = DictGet(Registry(lastOp.cls, fields), lastOp.staged[i].kw).default_value
        => EmissionsOf(emitted, lastOp.obj, signal_name_of(lastOp.staged[i].kw)) = {}

\* C3 (amended): the initializers are written, in the order given, before any
\* default is stored: a constructor call that succeeds has stored each
\* initializer and emitted exactly one notification for it, carrying its value,
\* also when the value equals the field's declared default.
C3_InitializerAlwaysNotifies ==
    (lastOp.op = "construct" /\ lastOp.raised = None) =>
      /\ Len(emitted) = Len(lastOp.staged)
      /\ \A i \in 1..Len(lastOp.staged) :
           /\ emitted[i] = [obj |-> lastOp.obj,
                            signal |-> signal_name_of(lastOp.staged[i].kw),
                            value |-> lastOp.staged[i].value]
           /\ getattr_field(Heap, lastOp.obj, lastOp.staged[i].kw).value
                = lastOp.staged[i].value

\* A constructor call succeeded with an initializer equal to the declared
\* default of its field.
C3_Witness ==
    /\ lastOp.op = "construct" /\ lastOp.raised = None
    /\ \E i \in 1..Len(lastOp.staged) :
         /\ lastOp.staged[i].value
              = DictGet(Registry(lastOp.cls, fields), lastOp.staged[i].kw).default_value
         /\ EmissionsOf(emitted, lastOp.obj, signal_name_of(lastOp.staged[i].kw)) # {}

\* The connections from obj's signal to subscriber sub's print_value.
SubscriptionsOf(sub, obj, signal_name) ==
    {j \in 1..Len(connections) :
        /\ connections[j].obj = obj /\ connections[j].signal = signal_name
        /\ connections[j].target.kind = "subscriber" /\ connections[j].target.to = sub}

\* C4: a subscriber is called once for each emission of a signal of a widget
\* and each connection it has to that signal of that widget, with the value
\* emitted, and is never called for an emission of a widget it is not connected
\* to, the same-named signal of another widget of the class included.
C4_OnlyOwnSubscribers ==
    \A sub \in Subscribers :
      LET calls == {k \in 1..Len(received) : received[k].sub = sub}
          due   == {p \in (1..Len(emitted)) \X (1..Len(connections)) :
                      p[2] \in SubscriptionsOf(sub, emitted[p[1]].obj, emitted[p[1]].signal)}
      IN  /\ Cardinality(calls) = Cardinality(due)
          /\ \A k \in calls : \E p \in due : emitted[p[1]].value = received[k].value

\* Two widgets of one class, s1 connected to w1's signal and s2 to the
\* same-named signal of w2; a write to w2 emitted, s2 was called and s1 was not.
C4_Witness ==
    /\ objtype["w1"] # None /\ objtype["w1"] = objtype["w2"]
    /\ SubscriptionsOf("s1", "w1", signal_name_of(maxV)) # {}
    /\ SubscriptionsOf("s2", "w2", signal_name_of(maxV)) # {}
    /\ IsWrite(lastOp) /\ lastOp.obj = "w2"
    /\ EmissionsOf(emitted, "w2", signal_name_of(maxV)) # {}
    /\ \E k \in 1..Len(received) : received[k].sub = "s2"
    /\ \A k \in 1..Len(received) : received[k].sub # "s1"

\* C5: when a signal of widget A is connected to a synthesized setter of widget
\* B, a write that changes A's field leaves, when it returns, the field of B
\* the setter writes holding the value written, and B's signal for that field
\* is emitted in the course of the write only if B's field did not hold that
\* value before.
C5_LinkPropagates ==
    [][(/\ IsWrite(lastOp') /\ lastOp'.raised = None
        /\ ~(/\ lastOp'.attr \in DOMAIN obj_dict[lastOp'.obj]
             /\ obj_dict[lastOp'.obj][lastOp'.attr] = lastOp'.value))
       => \A j \in 1..Len(connections) :
            (/\ connections[j].obj = lastOp'.obj
             /\ connections[j].signal = signal_name_of(lastOp'.attr)
             /\ connections[j].target.kind = "slot")
            => LET b == connections[j].target.to
                   g == connections[j].target.attr_name
                   v == lastOp'.value
               IN  /\ g \in DOMAIN obj_dict'[b] /\ obj_dict'[b][g] = v
                   /\ EmissionsOf(emitted', b, signal_name_of(g)) # {}
                        => ~(g \in DOMAIN obj_dict[b] /\ obj_dict[b][g] = v)
                   /\ Cardinality(EmissionsOf(emitted', b, signal_name_of(g))) <= 1]_vars

\* w1's signal is connected to w2's setter; a write to w1 emitted on w1 and then
\* on w2, and w2 holds the value written.
C5_Witness ==
    /\ IsWrite(lastOp) /\ lastOp.obj = "w1" /\ lastOp.raised = None
    /\ \E j \in 1..Len(connections) :
         /\ connections[j].obj = "w1"
         /\ connections[j].signal = signal_name_of(lastOp.attr)
         /\ connections[j].target = [kind |-> "slot", to |-> "w2", attr_name |-> maxV]
    /\ Len(emitted) = 2
    /\ emitted[1].obj = "w1" /\ emitted[2].obj = "w2"
    /\ maxV \in DOMAIN obj_dict["w2"] /\ obj_dict["w2"][maxV] = lastOp.value

\* C6: calling a synthesized setter changes the stored values and emits the
\* notifications exactly as assigning the same value to the field it is bound
\* to does, whatever the state, field and value.
C6_SetterEqualsAssignment ==
    [][/\ lastOp'.op = "slot" =>
            LET a == setattr_field(Heap, lastOp'.obj, lastOp'.attr, lastOp'.value)
            IN  obj_dict' = a.dict /\ emitted' = a.emitted /\ received' = a.received
       /\ (/\ lastOp'.op = "assign"
           /\ \E n \in DOMAIN obj_slots[lastOp'.obj] :
                 obj_slots[lastOp'.obj][n] = lastOp'.attr) =>
            LET b == set_field(Heap, lastOp'.obj, lastOp'.value, lastOp'.attr)
            IN  obj_dict' = b.dict /\ emitted' = b.emitted /\ received' = b.received]_vars

\* A setter call stored a new value and emitted.
C6_Witness ==
    /\ lastOp.op = "slot" /\ lastOp.raised = None
    /\ emitted = <<[obj |-> lastOp.obj, signal |-> signal_name_of(lastOp.attr),
                    value |-> lastOp.value]>>
    /\ obj_dict[lastOp.obj][lastOp.attr] = lastOp.value

InSeq(x, seq) == \E i \in 1..Len(seq) : seq[i] = x

\* C7: a constructor call splits its keyword arguments exactly: those naming a
\* registered field are staged and not forwarded, all others are forwarded to
\* the base constructor and not staged, none is lost or doubled, and the
\* positional arguments are forwarded as given.
C7_KwargsPartition ==
    lastOp.op = "construct" =>
      /\ \A i \in 1..Len(lastOp.kwargs) :
           IF DictHas(Registry(lastOp.cls, fields), lastOp.kwargs[i].kw)
           THEN /\ InSeq(lastOp.kwargs[i], lastOp.staged)
                /\ ~InSeq(lastOp.kwargs[i], lastOp.forwarded)
           ELSE /\ InSeq(lastOp.kwargs[i], lastOp.forwarded)
                /\ ~InSeq(lastOp.kwargs[i], lastOp.staged)
      /\ Len(lastOp.staged) + Len(lastOp.forwarded) = Len(lastOp.kwargs)
      /\ lastOp.base_args = lastOp.args

\* A constructor call with a field initializer and a parent keyword succeeded:
\* the initializer was staged, parent forwarded.
C7_Witness ==
    /\ lastOp.op = "construct" /\ lastOp.raised = None
    /\ lastOp.staged # << >>
    /\ lastOp.forwarded = <<[kw |-> parent, value |-> None]>>

\* C8: reading a field the widget holds no value for fails (KeyError from the
\* descriptor, AttributeError where the class has none), the read changes no
\* stored value and emits nothing, and right after a write that succeeded the
\* field reads without error.
C8_UninitializedRead ==
    /\ [](lastOp.op = "read" =>
            IF lastOp.attr \in DOMAIN obj_dict[lastOp.obj]
            THEN lastOp.raised = None /\ lastOp.value = obj_dict[lastOp.obj][lastOp.attr]
            ELSE lastOp.raised \in {"KeyError", "AttributeError"})
    /\ [][lastOp'.op = "read" =>
            obj_dict' = obj_dict /\ emitted' = << >> /\ received' = << >>]_vars
    /\ []((IsWrite(lastOp) /\ lastOp.raised = None) =>
            getattr_field(Heap, lastOp.obj, lastOp.attr).raised = None)

\* A read of maxV, declared without a default and never written, failed.
C8_Witness ==
    /\ lastOp.op = "read" /\ lastOp.attr = maxV /\ lastOp.raised = "KeyError"
    /\ maxV \notin DOMAIN obj_dict[lastOp.obj]

\* C9: a class statement leaves the Field Registry of every other class that
\* is already defined as it was.
C9_OwnRegistryOnly ==
    [][lastOp'.op = "class" =>
         \A c \in defined \ {lastOp'.cls} :
            Registry(c, fields') = Registry(c, fields)]_vars

\* The first character upper-cased, the others as they are.
upper_first(s) == IF s = << >> THEN s ELSE <<upper(s[1])>> \o SubSeq(s, 2, Len(s))

\* C10: after a constructor call the widget has, for every registered field f,
\* a setter named 'set' + f with its first letter upper-cased, and that setter
\* writes f.
C10_SetterNames ==
    (lastOp.op = "construct" /\ lastOp.raised = None) =>
      \A i \in 1..Len(Registry(lastOp.cls, fields)) :
        LET f == Registry(lastOp.cls, fields)[i].name
            n == <<"s","e","t">> \o upper_first(f)
        IN  n \in DOMAIN obj_slots[lastOp.obj] /\ obj_slots[lastOp.obj][n] = f

\* C11: the first write to a field the widget holds no value for stores the
\* value and emits exactly one notification on the field's channel, carrying
\* it, whatever the value; the writes a constructor call makes for its
\* initializers are such writes.
C11_FirstWriteNotifies ==
    [][/\ (IsWrite(lastOp') /\ lastOp'.attr \notin DOMAIN obj_dict[lastOp'.obj]) =>
            LET o  == lastOp'.obj
                f  == lastOp'.attr
                on == EmissionsOf(emitted', o, signal_name_of(f))
            IN  /\ f \in DOMAIN obj_dict'[o] /\ obj_dict'[o][f] = lastOp'.value
                /\ Cardinality(on) = 1
                /\ \A i \in on : emitted'[i].value = lastOp'.value
       /\ (lastOp'.op = "construct" /\ lastOp'.raised # "TypeError") =>
            \A i \in 1..Len(lastOp'.staged) :
              LET f  == lastOp'.staged[i].kw
                  on == EmissionsOf(emitted', lastOp'.obj, signal_name_of(f))
              IN  /\ lastOp'.raised = None
                  /\ Cardinality(on) = 1
                  /\ \A k \in on : emitted'[k].value = lastOp'.staged[i].value]_vars

\* The fields of the widgets, as (widget, name) pairs.
Nodes == Objects \X FieldNames

\* The fields whose setters the signal of field n is connected to.
LinkedTo(n) ==
    {<<connections[j].target.to, connections[j].target.attr_name>> :
        j \in {k \in 1..Len(connections) :
                 /\ connections[k].obj = n[1]
                 /\ connections[k].signal = signal_name_of(n[2])
                 /\ connections[k].target.kind = "slot"}}

\* The fields reachable from those of S through links.
RECURSIVE ReachableFrom(_)
ReachableFrom(S) ==
    LET more == S \cup UNION {LinkedTo(n) : n \in S}
    IN  IF more = S THEN S ELSE ReachableFrom(more)

\* d holds value v for field n.
Holds(d, n, v) == n[2] \in DOMAIN d[n[1]] /\ d[n[1]][n[2]] = v

\* What d holds for field n: <<the value>>, or << >> where it holds none.
StoredAt(d, n) == IF n[2] \in DOMAIN d[n[1]] THEN <<d[n[1]][n[2]]>> ELSE << >>

\* A write that changes the field written.
ChangingWrite(op, d) ==
    IsWrite(op) /\ op.raised = None /\ ~Holds(d, <<op.obj, op.attr>>, op.value)

\* C12 as stated: a changing write to a field of linked widgets returns, each
\* field has emitted at most once in its course, and every field reachable from
\* the written one through links then holds the value written.
C12_CascadeReachesAll ==
    [][ChangingWrite(lastOp', obj_dict) =>
         /\ \A n \in Nodes :
               Cardinality(EmissionsOf(emitted', n[1], signal_name_of(n[2]))) <= 1
         /\ \A n \in ReachableFrom({<<lastOp'.obj, lastOp'.attr>>}) :
               Holds(obj_dict', n, lastOp'.value)]_vars

\* C12 (amended): a changing write to a field of linked widgets returns; in
\* its course a field emits, once and with the value written, exactly if its
\* stored value changed, and every field linked from a field that emitted
\* holds the value written. A linked field that already held the value does
\* not emit, and the fields linked from it are left as they were.
C12_CascadeReachesChanged ==
    [][ChangingWrite(lastOp', obj_dict) =>
         /\ \A n \in Nodes :
               LET on == EmissionsOf(emitted', n[1], signal_name_of(n[2]))
               IN  /\ Cardinality(on) <= 1
                   /\ \A i \in on : emitted'[i].value = lastOp'.value
                   /\ on # {} <=> StoredAt(obj_dict', n) # StoredAt(obj_dict, n)
                   /\ on # {} => /\ Holds(obj_dict', n, lastOp'.value)
                                 /\ \A m \in LinkedTo(n) : Holds(obj_dict', m, lastOp'.value)
         /\ EmissionsOf(emitted', lastOp'.obj, signal_name_of(lastOp'.attr)) # {}]_vars

\* w1 and w2 are linked in a cycle, each one's signal to the other's setter; a
\* write to w1 returned with one emission of each and both holding the value.
C12_Witness ==
    /\ <<"w2", maxV>> \in LinkedTo(<<"w1", maxV>>)
    /\ <<"w1", maxV>> \in LinkedTo(<<"w2", maxV>>)
    /\ IsWrite(lastOp) /\ lastOp.obj = "w1" /\ lastOp.raised = None
    /\ Len(emitted) = 2 /\ emitted[1].obj = "w1" /\ emitted[2].obj = "w2"
    /\ Holds(obj_dict, <<"w1", maxV>>, lastOp.value)
    /\ Holds(obj_dict, <<"w2", maxV>>, lastOp.value)

\* C13: a changing write stores the value before it emits and the handlers run
\* before it returns: every subscriber connected to the field's signal has been
\* called with the value when the write returns, each call found the field
\* reading as the value it was called with, and where the signal is connected
\* to the setter of the same field the write inside the handler is
\* short-circuited: the field emitted once.
C13_StoredBeforeBroadcast ==
    [][/\ \A k \in 1..Len(received') : received'[k].seen = received'[k].value
       /\ ChangingWrite(lastOp', obj_dict) =>
            LET o   == lastOp'.obj
                sig == signal_name_of(lastOp'.attr)
            IN  /\ \A j \in 1..Len(connections) :
                      (/\ connections[j].obj = o /\ connections[j].signal = sig
                       /\ connections[j].target.kind = "subscriber")
                      => \E k \in 1..Len(received') :
                            /\ received'[k].sub = connections[j].target.to
                            /\ received'[k].value = lastOp'.value
                /\ <<o, lastOp'.attr>> \in LinkedTo(<<o, lastOp'.attr>>)
                      => Cardinality(EmissionsOf(emitted', o, sig)) = 1]_vars

\* w1's signal is connected to a subscriber and to w1's own setter of the
\* field; a changing write emitted once and the subscriber was called.
C13_Witness ==
    /\ IsWrite(lastOp) /\ lastOp.raised = None /\ lastOp.obj = "w1"
    /\ <<"w1", lastOp.attr>> \in LinkedTo(<<"w1", lastOp.attr>>)
    /\ SubscriptionsOf("s1", "w1", signal_name_of(lastOp.attr)) # {}
    /\ Len(emitted) = 1
    /\ \E k \in 1..Len(received) :
         received[k] = [sub |-> "s1", value |-> lastOp.value, seen |-> lastOp.value]

\* C14: after a constructor call, a registered field that was given no
\* initializer holds a value exactly if its declared default is not None: with
\* None a read of it fails, and any other default, a falsy one included, is the
\* value stored.
C14_DefaultsMaterialized ==
    (lastOp.op = "construct" /\ lastOp.raised = None) =>
      \A i \in 1..Len(Registry(lastOp.cls, fields)) :
        LET decl == Registry(lastOp.cls, fields)[i]
            f    == decl.name
        IN  (\A k \in 1..Len(lastOp.staged) : lastOp.staged[k].kw # f) =>
              IF decl.default_value = None
              THEN /\ f \notin DOMAIN obj_dict[lastOp.obj]
                   /\ getattr_field(Heap, lastOp.obj, f).raised # None
              ELSE /\ f \in DOMAIN obj_dict[lastOp.obj]
                   /\ obj_dict[lastOp.obj][f] = decl.default_value

\* A constructor call without initializers succeeded: kind holds its falsy
\* default and maxV, declared without one, holds nothing.
C14_Witness ==
    /\ lastOp.op = "construct" /\ lastOp.raised = None /\ lastOp.staged = << >>
    /\ DictHas(Registry(lastOp.cls, fields), kind)
    /\ ~bool(DictGet(Registry(lastOp.cls, fields), kind).default_value)
    /\ Holds(obj_dict, <<lastOp.obj, kind>>, "0.0")
    /\ DictGet(Registry(lastOp.cls, fields), maxV).default_value = None
    /\ maxV \notin DOMAIN obj_dict[lastOp.obj]

\* C15: a write to field f of widget x whose signal is connected to no setter
\* changes nothing but x's value for f and emits on nothing but x's signal for
\* f: every other field of x and every field of every other widget, those of
\* x's class included, holds what it held, and the widgets, their setters and
\* the connections are as they were.
C15_WriteFrame ==
    [][(IsWrite(lastOp') /\ LinkedTo(<<lastOp'.obj, lastOp'.attr>>) = {}) =>
         /\ \A n \in Nodes \ {<<lastOp'.obj, lastOp'.attr>>} :
               StoredAt(obj_dict', n) = StoredAt(obj_dict, n)
         /\ \A i \in 1..Len(emitted') :
               /\ emitted'[i].obj = lastOp'.obj
               /\ emitted'[i].signal = signal_name_of(lastOp'.attr)
         /\ objtype' = objtype /\ obj_slots' = obj_slots
         /\ signals' = signals /\ connections' = connections]_vars

\* w1 and w2 are widgets of one class and both hold a value; a write changed
\* w1's, emitted on w1's signal, and w2 holds another value.
C15_Witness ==
    /\ objtype["w1"] # None /\ objtype["w2"] = objtype["w1"]
    /\ IsWrite(lastOp) /\ lastOp.obj = "w1" /\ lastOp.raised = None
    /\ LinkedTo(<<"w1", lastOp.attr>>) = {}
    /\ emitted # << >>
    /\ Holds(obj_dict, <<"w1", lastOp.attr>>, lastOp.value)
    /\ lastOp.attr \in DOMAIN obj_dict["w2"]
    /\ ~Holds(obj_dict, <<"w2", lastOp.attr>>, lastOp.value)

\* C16: a field that holds a value holds one after every operation, and holds
\* another one only after a write (an assignment or a setter call, or a setter
\* called in its course) of that other value.
C16_StaysInitialized ==
    [][\A n \in Nodes :
         StoredAt(obj_dict, n) # << >> =>
           /\ StoredAt(obj_dict', n) # << >>
           /\ StoredAt(obj_dict', n) # StoredAt(obj_dict, n) =>
                /\ IsWrite(lastOp')
                /\ StoredAt(obj_dict', n) = <<lastOp'.value>>]_vars

\* maxV held a value, and a write of that value has left the field as it was
\* and emitted nothing.
C16_Witness ==
    /\ IsWrite(lastOp) /\ lastOp.raised = None /\ lastOp.attr = maxV
    /\ emitted = << >>
    /\ Holds(obj_dict, <<lastOp.obj, maxV>>, lastOp.value)

\* C17: the min and max of a declaration are kept on it as declared and are
\* not enforced: a write of a value below min or above max leaves the field
\* holding exactly that value, raises nothing, and emits as any write does:
\* one notification carrying the value if the field did not hold it, none if
\* it did.
C17_BoundsNotEnforced ==
    /\ [](\A c \in defined : \A name \in DOMAIN descriptors[c] :
            \E body \in ClassBodies(c) : \E i \in 1..Len(body) :
               /\ body[i].name = name
               /\ descriptors[c][name].min = body[i].field.min
               /\ descriptors[c][name].max = body[i].field.max)
    /\ [][(/\ IsWrite(lastOp')
            /\ DictHas(Registry(lastOp'.cls, fields), lastOp'.attr)
            /\ out_of_range(DictGet(Registry(lastOp'.cls, fields), lastOp'.attr),
                            lastOp'.value)) =>
             LET n  == <<lastOp'.obj, lastOp'.attr>>
                 on == EmissionsOf(emitted', n[1], signal_name_of(n[2]))
             IN  /\ Holds(obj_dict', n, lastOp'.value)
                 /\ has_signal(lastOp'.cls, signals, signal_name_of(n[2])) =>
                      /\ lastOp'.raised = None
                      /\ Cardinality(on) = IF Holds(obj_dict, n, lastOp'.value) THEN 0 ELSE 1
                      /\ \A i \in on : emitted'[i].value = lastOp'.value]_vars

\* A write of 0.0 to maxV, declared with a min of 0.05, was stored and emitted.
C17_Witness ==
    /\ IsWrite(lastOp) /\ lastOp.attr = maxV /\ lastOp.value = "0.0"
    /\ lastOp.raised = None
    /\ out_of_range(descriptor_of(lastOp.cls, descriptors, maxV), lastOp.value)
    /\ Holds(obj_dict, <<lastOp.obj, maxV>>, "0.0")
    /\ emitted = <<[obj |-> lastOp.obj, signal |-> signal_name_of(maxV), value |-> "0.0"]>>

\* A keyword of the call names neither a registered field of the class nor
\* the parameter of the base constructor.
UnknownKeyword(op) ==
    \E i \in 1..Len(op.kwargs) :
       /\ ~DictHas(Registry(op.cls, fields), op.kwargs[i].kw)
       /\ op.kwargs[i].kw # parent

\* C18: a constructor call with a keyword that names neither a registered field
\* nor a parameter of the base constructor fails in the base constructor, with
\* nothing done for the fields: no value stored, no default materialized, no
\* setter made, no notification emitted, also when the call gives initializers.
C18_UnknownKeywordFailsFirst ==
    [][(lastOp'.op = "construct" /\ UnknownKeyword(lastOp')) =>
         /\ lastOp'.raised = "TypeError"
         /\ lastOp'.stored = << >> /\ lastOp'.slots = << >>
         /\ emitted' = << >> /\ received' = << >>
         /\ objtype' = objtype /\ obj_dict' = obj_dict /\ obj_slots' = obj_slots]_vars

\* A constructor call gave an initializer for a field and the keyword bogus,
\* and failed.
C18_Witness ==
    /\ lastOp.op = "construct" /\ UnknownKeyword(lastOp)
    /\ lastOp.staged # << >>
    /\ InSeq([kw |-> bogus, value |-> "0.0"], lastOp.forwarded)
    /\ lastOp.raised = "TypeError"

\* C19: constructor calls, reads, assignments and setter calls leave every
\* class's Field Registry and every declaration (its type, default, min and
\* max) as the class statements made them.
C19_RegistryReadOnly ==
    [][lastOp'.op \in {"construct", "read", "assign", "slot"} =>
         /\ fields' = fields
         /\ descriptors' = descriptors]_vars

\* Both classes are defined, and a setter call on a widget has changed a
\* field's value.
C19_Witness ==
    /\ defined = Classes
    /\ lastOp.op = "slot" /\ lastOp.raised = None
    /\ emitted # << >>
    /\ Len(Registry(lastOp.cls, fields)) >= 2
    /\ Holds(obj_dict, <<lastOp.obj, lastOp.attr>>, lastOp.value)

====
